---- MODULE Spec2Model ----
(***************************************************************************)
(* The JoiningNode state handler of the routing library                    *)
(* (src/states/joining_node.rs) and the Action type it answers             *)
(* (src/action.rs), as a state machine.                                    *)
(*                                                                         *)
(* One event (an Action or a Crust event) is handled to completion per     *)
(* step.  The handler's fields are the record jn; every handler is an      *)
(* operator from the fields and the event to the new fields and the        *)
(* handler's outputs (transition, error, transmissions, events, replies).  *)
(*                                                                         *)
(* AckManager, RoutingMessageFilter, Timer, the message envelope layer,    *)
(* the Bootstrapped trait's default methods and the state machine driver   *)
(* belong to the library but lie outside the two files modelled here; they *)
(* are modelled from the library's specification (sections 4.1-4.5).  The  *)
(* retention window of the routing filter is not modelled: the model has   *)
(* no clock, so a filter entry is kept for the whole run.                  *)
(***************************************************************************)
EXTENDS Integers, Sequences, FiniteSets, TLC

\* ------------------------------------------------------------------ bounds
\* XorName space is 0..MaxName
MaxName == 2
\* hop routes are 0..MaxRoute
MaxRoute == 1
\* entries the incoming routing filter may hold in a run
MaxFilter == 1
\* resends of one unacknowledged message before it is given up
MaxRetries == 1
\* number of signatures a signed message may carry, 0..MaxSigs
MaxSigs == 2

\* ------------------------------------------------------- value universes
Names == 0 .. MaxName
Routes == 0 .. MaxRoute

\* crust peer ids: our own, and two remote peers
OwnPeerId == "peerSelf"
PeerIds == {OwnPeerId, "peerA", "peerB"}

\* signing keys
OwnKey == "kSelf"
ProxyKey == "kProxy"
OtherKey == "kOther"

\* the section membership carried by a RelocateResponse
Sections == {{"idA"}, {"idA", "idB"}}

\* Authority<XorName>: Client { client_key, proxy_node_name, .. } or
\* Section(name); name holds proxy_node_name for a Client
Client(client_key, proxy_node_name) ==
    [kind |-> "Client", client_key |-> client_key, name |-> proxy_node_name]

Section(name) ==
    [kind |-> "Section", client_key |-> "none", name |-> name]

\* MessageContent variants that dispatch_routing_message ignores
IgnoredKinds ==
    {"Relocate", "ExpectCandidate", "ConnectionInfoRequest",
     "ConnectionInfoResponse", "SectionUpdate", "SectionSplit",
     "OwnSectionMerge", "OtherSectionMerge", "UserMessagePart",
     "AcceptAsCandidate", "CandidateApproval", "NodeApproval"}

NoAck == <<>>

NoInterval == <<0, 0>>

\* MessageContent
Content(kind) ==
    [kind |-> kind, ack |-> NoAck, target_interval |-> NoInterval, section |-> {}]

AckContent(ack) ==
    [kind |-> "Ack", ack |-> ack, target_interval |-> NoInterval, section |-> {}]

RelocateResponse(target_interval, section) ==
    [kind |-> "RelocateResponse", ack |-> NoAck,
     target_interval |-> target_interval, section |-> section]

RoutingMessage(src, dst, content) ==
    [src |-> src, dst |-> dst, content |-> content]

\* Ack::compute: the digest of a routing message, one value per message
compute(routing_msg) ==
    <<routing_msg.src, routing_msg.dst, routing_msg.content>>

\* an Ack that matches nothing this node has sent
BogusAck == <<"bogus">>

NoId == [key |-> "none", name |-> 0]

NoMsg == RoutingMessage(Section(0), Section(0), Content("none"))

\* Transition
Stay == [kind |-> "Stay", new_id |-> NoId, our_section |-> {}]

Terminate == [kind |-> "Terminate", new_id |-> NoId, our_section |-> {}]

IntoBootstrapping(new_id, our_section) ==
    [kind |-> "IntoBootstrapping", new_id |-> new_id, our_section |-> our_section]

\* ----------------------------------------------- envelope layer (4.1)
\* HopMessage::verify: the hop signature was made with verification_key
verify(hop_msg, verification_key) ==
    hop_msg.signer = verification_key

\* signatures a message from src needs: one for a client, a quorum of the
\* minimum section size for a section
Quorum(src, min_section_size) ==
    IF src.kind = "Client" THEN 1 ELSE (min_section_size \div 2) + 1

\* SignedMessage::check_integrity
check_integrity(signed_msg, min_section_size) ==
    signed_msg.signatures >= Quorum(signed_msg.routing_msg.src, min_section_size)

\* serialisation::deserialise of the received bytes
deserialise(bytes) ==
    IF bytes.tag = "Garbage"
    THEN [ok |-> FALSE, message |-> "none"]
    ELSE [ok |-> TRUE, message |-> bytes.tag]

\* ------------------------------------------------ routing filter (4.2)
\* RoutingMessageFilter::filter_incoming
filter_incoming(filter, routing_msg, route) ==
    [filter |-> [filter EXCEPT !.incoming = @ \cup {<<routing_msg, route>>}],
     result |-> IF <<routing_msg, route>> \in filter.incoming
                THEN "KnownMessageAndRoute"
                ELSE IF \E r \in Routes : <<routing_msg, r>> \in filter.incoming
                     THEN "KnownMessage"
                     ELSE "NewMessage"]

\* RoutingMessageFilter::filter_outgoing, through
\* Bootstrapped::filter_outgoing_routing_msg: TRUE when the combination of
\* message, peer and route was sent before
filter_outgoing_routing_msg(jn, routing_msg, peer_id, route) ==
    [jn |-> [jn EXCEPT !.routing_msg_filter.outgoing =
                           @ \cup {<<routing_msg, peer_id, route>>}],
     known |-> <<routing_msg, peer_id, route>> \in jn.routing_msg_filter.outgoing]

\* ------------------------------------------- acknowledgment manager (4.3)
\* Bootstrapped::add_to_pending_acks: an Ack needs no acknowledgment; any
\* other message is registered with a fresh timer token unless an identical
\* entry (message and route) is pending
add_to_pending_acks(jn, routing_msg, route) ==
    IF routing_msg.content.kind = "Ack"
    THEN [jn |-> jn, proceed |-> TRUE]
    ELSE IF \E e \in jn.ack_mgr : e.routing_msg = routing_msg /\ e.route = route
         THEN [jn |-> jn, proceed |-> FALSE]
         ELSE [jn |-> [jn EXCEPT !.ack_mgr = @ \cup
                                   {[routing_msg |-> routing_msg, route |-> route,
                                     timer_token |-> jn.timer, retries |-> 0]},
                                 !.timer = @ + 1],
               proceed |-> TRUE]

\* AckManager::receive: removes the pending entry the ack matches, if any
receive(ack_mgr, ack) ==
    {e \in ack_mgr : compute(e.routing_msg) # ack}

\* ------------------------------------------------------ handler outputs
\* what one call of a handler yields: the handler's fields afterwards, the
\* Transition (or the RoutingError), the bytes handed to Crust, the Events
\* put in the outbox and the replies sent on the action's result_tx
Out(jn) ==
    [jn |-> jn, transition |-> Stay, err |-> "none", sends |-> <<>>,
     events |-> <<>>, replies |-> <<>>, filtered |-> "none",
     dispatched |-> FALSE, resent |-> FALSE, returns |-> TRUE]

\* Base::name: the name of our public id
name(jn) ==
    jn.full_id.name

\* Bootstrapped::min_section_size
min_section_size(jn) ==
    jn.min_section_size

\* in_authority taking every client authority for ours
in_authority_any_client(jn, auth) ==
    auth.kind = "Client"

\* Base::in_authority
in_authority(jn, auth) ==
    IF auth.kind = "Client"
    THEN auth.client_key = jn.full_id.key
    ELSE FALSE

\* send_routing_message_via_route sending whatever the outgoing filter says
send_routing_message_via_route_unfiltered(s, routing_msg, route) ==
    IF routing_msg.dst.kind = "Client" /\ in_authority(s.jn, routing_msg.dst)
    THEN s
    ELSE IF routing_msg.src.kind = "Client"
         THEN IF s.jn.proxy_public_id.name # routing_msg.src.name
              THEN [s EXCEPT !.err = "ProxyConnectionNotFound"]
              ELSE IF s.fault = "SignedMessage::new"
              THEN [s EXCEPT !.err = "SigningError"]
              ELSE LET a == add_to_pending_acks(s.jn, routing_msg, route)
                       f == filter_outgoing_routing_msg(a.jn, routing_msg,
                                                        s.jn.proxy_peer_id, route)
                   IN  IF ~a.proceed
                       THEN [s EXCEPT !.jn = a.jn]
                       ELSE IF s.fault = "to_hop_bytes"
                       THEN [s EXCEPT !.jn = f.jn,
                                      !.err = "SerialisationError"]
                       ELSE [s EXCEPT !.jn = f.jn,
                                      !.sends = Append(@,
                                          [peer_id |-> s.jn.proxy_peer_id,
                                           routing_msg |-> routing_msg,
                                           route |-> route])]
         ELSE [s EXCEPT !.err = "InvalidSource"]

\* send_routing_message_via_route registering the message with the ack
\* manager before it looks at the source
send_routing_message_via_route_eager(s, routing_msg, route) ==
    IF routing_msg.dst.kind = "Client" /\ in_authority(s.jn, routing_msg.dst)
    THEN s
    ELSE LET a == add_to_pending_acks(s.jn, routing_msg, route)
             f == filter_outgoing_routing_msg(a.jn, routing_msg,
                                              s.jn.proxy_peer_id, route)
         IN  IF routing_msg.src.kind = "Client"
             THEN IF s.jn.proxy_public_id.name # routing_msg.src.name
                  THEN [s EXCEPT !.jn = a.jn, !.err = "ProxyConnectionNotFound"]
                  ELSE IF s.fault = "SignedMessage::new"
                  THEN [s EXCEPT !.err = "SigningError"]
                  ELSE IF ~a.proceed
                       THEN [s EXCEPT !.jn = a.jn]
                       ELSE IF f.known
                            THEN [s EXCEPT !.jn = f.jn]
                            ELSE IF s.fault = "to_hop_bytes"
                            THEN [s EXCEPT !.jn = f.jn,
                                           !.err = "SerialisationError"]
                            ELSE [s EXCEPT !.jn = f.jn,
                                           !.sends = Append(@,
                                               [peer_id |-> s.jn.proxy_peer_id,
                                                routing_msg |-> routing_msg,
                                                route |-> route])]
             ELSE [s EXCEPT !.jn = a.jn, !.err = "InvalidSource"]

\* send_routing_message_via_route handing the messages for ourselves to
\* the proxy like any other
send_routing_message_via_route_loops(s, routing_msg, route) ==
    IF FALSE
    THEN s
    ELSE IF routing_msg.src.kind = "Client"
         THEN IF s.jn.proxy_public_id.name # routing_msg.src.name
              THEN [s EXCEPT !.err = "ProxyConnectionNotFound"]
              ELSE IF s.fault = "SignedMessage::new"
              THEN [s EXCEPT !.err = "SigningError"]
              ELSE LET a == add_to_pending_acks(s.jn, routing_msg, route)
                       f == filter_outgoing_routing_msg(a.jn, routing_msg,
                                                        s.jn.proxy_peer_id, route)
                   IN  IF ~a.proceed
                       THEN [s EXCEPT !.jn = a.jn]
                       ELSE IF f.known
                            THEN [s EXCEPT !.jn = f.jn]
                            ELSE IF s.fault = "to_hop_bytes"
                            THEN [s EXCEPT !.jn = f.jn,
                                           !.err = "SerialisationError"]
                            ELSE [s EXCEPT !.jn = f.jn,
                                           !.sends = Append(@,
                                               [peer_id |-> s.jn.proxy_peer_id,
                                                routing_msg |-> routing_msg,
                                                route |-> route])]
         ELSE [s EXCEPT !.err = "InvalidSource"]

\* Bootstrapped::send_routing_message_via_route, on s = [jn, sends, err,
\* fault]: fault names the call that fails while the message is made ready
\* for the wire, SignedMessage::new or to_hop_bytes, or is "none"
send_routing_message_via_route(s, routing_msg, route) ==
    IF routing_msg.dst.kind = "Client" /\ in_authority(s.jn, routing_msg.dst)
    THEN s
    ELSE IF routing_msg.src.kind = "Client"
         THEN IF s.jn.proxy_public_id.name # routing_msg.src.name
              THEN [s EXCEPT !.err = "ProxyConnectionNotFound"]
              ELSE IF s.fault = "SignedMessage::new"
              THEN [s EXCEPT !.err = "SigningError"]
              ELSE LET a == add_to_pending_acks(s.jn, routing_msg, route)
                       f == filter_outgoing_routing_msg(a.jn, routing_msg,
                                                        s.jn.proxy_peer_id, route)
                   IN  IF ~a.proceed
                       THEN [s EXCEPT !.jn = a.jn]
                       ELSE IF f.known
                            THEN [s EXCEPT !.jn = f.jn]
                            ELSE IF s.fault = "to_hop_bytes"
                            THEN [s EXCEPT !.jn = f.jn,
                                           !.err = "SerialisationError"]
                            ELSE [s EXCEPT !.jn = f.jn,
                                           !.sends = Append(@,
                                               [peer_id |-> s.jn.proxy_peer_id,
                                                routing_msg |-> routing_msg,
                                                route |-> route])]
         ELSE [s EXCEPT !.err = "InvalidSource"]

\* Bootstrapped::send_routing_message: the first send is on route 0
send_routing_message(s, src, dst, content) ==
    send_routing_message_via_route(s, RoutingMessage(src, dst, content), 0)

\* Bootstrapped::send_ack: no ack for an Ack; the ack goes from the
\* message's destination to its source, a failure to send is only logged
send_ack(s, routing_msg, route) ==
    IF routing_msg.content.kind = "Ack"
    THEN s
    ELSE LET response == RoutingMessage(routing_msg.dst, routing_msg.src,
                                        AckContent(compute(routing_msg)))
             r == send_routing_message_via_route(s, response, route)
         IN  [r EXCEPT !.err = "none"]

\* Bootstrapped::resend_unacknowledged_timed_out_msgs: the pending entry of
\* the token, if any, is sent again to the proxy on the same route under a
\* new timer token, or given up once MaxRetries resends were made
resend_unacknowledged_timed_out_msgs(s, token) ==
    IF \E e \in s.jn.ack_mgr : e.timer_token = token
    THEN LET e == CHOOSE e \in s.jn.ack_mgr : e.timer_token = token
         IN  IF e.retries >= MaxRetries
             THEN [s EXCEPT !.jn.ack_mgr = @ \ {e}]
             ELSE [s EXCEPT !.jn.ack_mgr =
                                (@ \ {e}) \cup {[e EXCEPT !.timer_token = s.jn.timer,
                                                          !.retries = @ + 1]},
                            !.jn.timer = @ + 1,
                            !.sends = Append(@, [peer_id |-> s.jn.proxy_peer_id,
                                                 routing_msg |-> e.routing_msg,
                                                 route |-> e.route])]
    ELSE s

\* JoiningNode::relocate
relocate(jn, fault) ==
    LET request_content == Content("Relocate")
        src == Client(jn.full_id.key, jn.proxy_public_id.name)
        dst == Section(name(jn))
    IN  send_routing_message([jn |-> jn, sends |-> <<>>, err |-> "none",
                              fault |-> fault],
                             src, dst, request_content)

\* FullId::within_range with rnd the name of the generated key pair: the
\* call returns only with a name in [start, end]
within_range(start, end, rnd) ==
    [returns |-> start <= rnd /\ rnd <= end,
     id |-> [key |-> "kNew", name |-> rnd]]

\* handle_relocate_response drawing the new name from the whole name space
handle_relocate_response_any_name(jn, target_interval, section, rnd) ==
    LET new_id == within_range(0, MaxName, rnd)
    IN  [Out(jn) EXCEPT !.transition = IntoBootstrapping(new_id.id, section),
                        !.returns = new_id.returns]

\* JoiningNode::handle_relocate_response
handle_relocate_response(jn, target_interval, section, rnd) ==
    LET new_id == within_range(target_interval[1], target_interval[2], rnd)
    IN  [Out(jn) EXCEPT !.transition = IntoBootstrapping(new_id.id, section),
                        !.returns = new_id.returns]

\* handle_ack_response leaving the pending acks as they are
handle_ack_response_keeps(jn, ack) ==
    jn

\* JoiningNode::handle_ack_response
handle_ack_response(jn, ack) ==
    [jn EXCEPT !.ack_mgr = receive(@, ack)]

\* dispatch_routing_message taking NodeApproval for the end of the state
dispatch_routing_message_approval(jn, routing_msg, rnd) ==
    IF routing_msg.content.kind = "NodeApproval"
    THEN [Out(jn) EXCEPT !.transition = Terminate]
    ELSE IF routing_msg.content.kind \in IgnoredKinds
    THEN Out(jn)
    ELSE IF routing_msg.content.kind = "Ack"
         THEN Out(handle_ack_response(jn, routing_msg.content.ack))
         ELSE handle_relocate_response(jn, routing_msg.content.target_interval,
                                       routing_msg.content.section, rnd)

\* JoiningNode::dispatch_routing_message
dispatch_routing_message(jn, routing_msg, rnd) ==
    IF routing_msg.content.kind \in IgnoredKinds
    THEN Out(jn)
    ELSE IF routing_msg.content.kind = "Ack"
         THEN Out(handle_ack_response(jn, routing_msg.content.ack))
         ELSE handle_relocate_response(jn, routing_msg.content.target_interval,
                                       routing_msg.content.section, rnd)

\* handle_routing_message dispatching the messages of other authorities
\* as well
handle_routing_message_relays(jn, hop_msg, rnd) ==
    LET routing_msg == hop_msg.content.routing_msg
        in_auth == in_authority(jn, routing_msg.dst)
        s0 == [jn |-> jn, sends |-> <<>>, err |-> "none", fault |-> "none"]
        s1 == IF in_auth THEN send_ack(s0, routing_msg, 0) ELSE s0
        f == filter_incoming(s1.jn.routing_msg_filter, routing_msg, hop_msg.route)
        jn1 == [s1.jn EXCEPT !.routing_msg_filter = f.filter]
        o == [Out(jn1) EXCEPT !.sends = s1.sends, !.filtered = f.result]
    IN  IF f.result # "NewMessage"
        THEN [o EXCEPT !.err = "FilterCheckFailed"]
        ELSE LET d == dispatch_routing_message(jn1, routing_msg, rnd)
             IN  [o EXCEPT !.jn = d.jn, !.transition = d.transition,
                           !.returns = d.returns, !.dispatched = TRUE]

\* JoiningNode::handle_hop_message, from the routing message on: the ack,
\* the routing filter and the dispatch
handle_routing_message(jn, hop_msg, rnd) ==
    LET routing_msg == hop_msg.content.routing_msg
        in_auth == in_authority(jn, routing_msg.dst)
        s0 == [jn |-> jn, sends |-> <<>>, err |-> "none", fault |-> "none"]
        s1 == IF in_auth THEN send_ack(s0, routing_msg, 0) ELSE s0
        f == filter_incoming(s1.jn.routing_msg_filter, routing_msg, hop_msg.route)
        jn1 == [s1.jn EXCEPT !.routing_msg_filter = f.filter]
        o == [Out(jn1) EXCEPT !.sends = s1.sends, !.filtered = f.result]
    IN  IF f.result # "NewMessage"
        THEN [o EXCEPT !.err = "FilterCheckFailed"]
        ELSE IF ~in_auth
             THEN o
             ELSE LET d == dispatch_routing_message(jn1, routing_msg, rnd)
                  IN  [o EXCEPT !.jn = d.jn, !.transition = d.transition,
                                !.returns = d.returns, !.dispatched = TRUE]

\* handle_hop_message taking hop messages from any peer
handle_hop_message_any_peer(jn, hop_msg, peer_id, rnd) ==
    IF ~verify(hop_msg, jn.proxy_public_id.key)
    THEN [Out(jn) EXCEPT !.err = "FailedSignature"]
    ELSE IF ~check_integrity(hop_msg.content, min_section_size(jn))
    THEN [Out(jn) EXCEPT !.err = "IntegrityError"]
    ELSE handle_routing_message(jn, hop_msg, rnd)

\* handle_hop_message without the integrity check
handle_hop_message_no_integrity(jn, hop_msg, peer_id, rnd) ==
    IF jn.proxy_peer_id # peer_id
    THEN [Out(jn) EXCEPT !.err = "UnknownConnection"]
    ELSE IF ~verify(hop_msg, jn.proxy_public_id.key)
    THEN [Out(jn) EXCEPT !.err = "FailedSignature"]
    ELSE handle_routing_message(jn, hop_msg, rnd)

\* handle_hop_message trusting the proxy's connection without verifying
\* the hop signature
handle_hop_message_unverified(jn, hop_msg, peer_id, rnd) ==
    IF jn.proxy_peer_id # peer_id
    THEN [Out(jn) EXCEPT !.err = "UnknownConnection"]
    ELSE IF ~check_integrity(hop_msg.content, min_section_size(jn))
    THEN [Out(jn) EXCEPT !.err = "IntegrityError"]
    ELSE handle_routing_message(jn, hop_msg, rnd)

\* JoiningNode::handle_hop_message
handle_hop_message(jn, hop_msg, peer_id, rnd) ==
    IF jn.proxy_peer_id # peer_id
    THEN [Out(jn) EXCEPT !.err = "UnknownConnection"]
    ELSE IF ~verify(hop_msg, jn.proxy_public_id.key)
    THEN [Out(jn) EXCEPT !.err = "FailedSignature"]
    ELSE IF ~check_integrity(hop_msg.content, min_section_size(jn))
    THEN [Out(jn) EXCEPT !.err = "IntegrityError"]
    ELSE handle_routing_message(jn, hop_msg, rnd)

\* handle_new_message taking a RoutingError for the end of the state
handle_new_message_fatal(jn, peer_id, bytes, rnd) ==
    LET m == deserialise(bytes)
        r == IF m.ok
             THEN IF m.message = "Hop"
                  THEN handle_hop_message(jn, bytes.hop, peer_id, rnd)
                  ELSE Out(jn)
             ELSE [Out(jn) EXCEPT !.err = "SerialisationError"]
    IN  IF r.err = "none" THEN r ELSE [r EXCEPT !.transition = Terminate]

\* JoiningNode::handle_new_message
handle_new_message(jn, peer_id, bytes, rnd) ==
    LET m == deserialise(bytes)
        r == IF m.ok
             THEN IF m.message = "Hop"
                  THEN handle_hop_message(jn, bytes.hop, peer_id, rnd)
                  ELSE Out(jn)
             ELSE [Out(jn) EXCEPT !.err = "SerialisationError"]
    IN  IF r.err = "none" THEN r ELSE [r EXCEPT !.transition = Stay]

\* handle_lost_peer staying in the state when the proxy is lost
handle_lost_peer_stays(jn, peer_id) ==
    Out(jn)

\* Base::handle_lost_peer of JoiningNode
handle_lost_peer(jn, peer_id) ==
    IF peer_id = jn.crust_service
    THEN Out(jn)
    ELSE IF jn.proxy_peer_id = peer_id
         THEN [Out(jn) EXCEPT !.events = <<"Terminate">>, !.transition = Terminate]
         ELSE Out(jn)

\* handle_timeout taking every token from the relocation token on for it
handle_timeout_later_tokens(jn, token) ==
    IF jn.relocation_timer_token <= token
    THEN [Out(jn) EXCEPT !.events = <<"RestartRequired">>, !.transition = Terminate]
    ELSE LET s == resend_unacknowledged_timed_out_msgs(
                      [jn |-> jn, sends |-> <<>>, err |-> "none", fault |-> "none"], token)
         IN  [Out(s.jn) EXCEPT !.sends = s.sends, !.resent = TRUE]

\* handle_timeout asking for a restart without ending the state
handle_timeout_stays(jn, token) ==
    IF jn.relocation_timer_token = token
    THEN [Out(jn) EXCEPT !.events = <<"RestartRequired">>]
    ELSE LET s == resend_unacknowledged_timed_out_msgs(
                      [jn |-> jn, sends |-> <<>>, err |-> "none", fault |-> "none"], token)
         IN  [Out(s.jn) EXCEPT !.sends = s.sends, !.resent = TRUE]

\* JoiningNode::handle_timeout
handle_timeout(jn, token) ==
    IF jn.relocation_timer_token = token
    THEN [Out(jn) EXCEPT !.events = <<"RestartRequired">>, !.transition = Terminate]
    ELSE LET s == resend_unacknowledged_timed_out_msgs(
                      [jn |-> jn, sends |-> <<>>, err |-> "none", fault |-> "none"], token)
         IN  [Out(s.jn) EXCEPT !.sends = s.sends, !.resent = TRUE]

\* handle_action routing a ClientSendRequest instead of rejecting it
handle_action_sends(jn, action) ==
    IF action.kind = "ClientSendRequest"
    THEN LET s == send_routing_message(
                      [jn |-> jn, sends |-> <<>>, err |-> "none", fault |-> "none"],
                      Client(jn.full_id.key, jn.proxy_public_id.name),
                      Section(0), Content("UserMessagePart"))
         IN  [Out(s.jn) EXCEPT !.sends = s.sends,
                               !.replies = <<[err |-> "none", name |-> 0]>>]
    ELSE IF action.kind = "NodeSendMessage"
    THEN [Out(jn) EXCEPT !.replies = <<[err |-> "InvalidState", name |-> 0]>>]
    ELSE IF action.kind = "Name"
    THEN [Out(jn) EXCEPT !.replies = <<[err |-> "none", name |-> name(jn)]>>]
    ELSE IF action.kind = "Timeout"
    THEN LET t == handle_timeout(jn, action.token)
         IN  IF t.transition = Terminate
             THEN t
             ELSE [t EXCEPT !.transition = Stay]
    ELSE IF action.kind = "ResourceProofResult"
    THEN Out(jn)
    ELSE [Out(jn) EXCEPT !.transition = Terminate]

\* handle_action answering Name with the proxy's name
handle_action_proxy_name(jn, action) ==
    IF action.kind \in {"ClientSendRequest", "NodeSendMessage"}
    THEN [Out(jn) EXCEPT !.replies = <<[err |-> "InvalidState", name |-> 0]>>]
    ELSE IF action.kind = "Name"
    THEN [Out(jn) EXCEPT !.replies = <<[err |-> "none",
                                        name |-> jn.proxy_public_id.name]>>]
    ELSE IF action.kind = "Timeout"
    THEN LET t == handle_timeout(jn, action.token)
         IN  IF t.transition = Terminate
             THEN t
             ELSE [t EXCEPT !.transition = Stay]
    ELSE IF action.kind = "ResourceProofResult"
    THEN Out(jn)
    ELSE [Out(jn) EXCEPT !.transition = Terminate]

\* handle_action putting Terminate off while acks are pending
handle_action_drains(jn, action) ==
    IF action.kind \in {"ClientSendRequest", "NodeSendMessage"}
    THEN [Out(jn) EXCEPT !.replies = <<[err |-> "InvalidState", name |-> 0]>>]
    ELSE IF action.kind = "Name"
    THEN [Out(jn) EXCEPT !.replies = <<[err |-> "none", name |-> name(jn)]>>]
    ELSE IF action.kind = "Timeout"
    THEN LET t == handle_timeout(jn, action.token)
         IN  IF t.transition = Terminate
             THEN t
             ELSE [t EXCEPT !.transition = Stay]
    ELSE IF action.kind = "ResourceProofResult"
    THEN Out(jn)
    ELSE IF jn.ack_mgr # {}
    THEN Out(jn)
    ELSE [Out(jn) EXCEPT !.transition = Terminate]

\* JoiningNode::handle_action
handle_action(jn, action) ==
    IF action.kind \in {"ClientSendRequest", "NodeSendMessage"}
    THEN [Out(jn) EXCEPT !.replies = <<[err |-> "InvalidState", name |-> 0]>>]
    ELSE IF action.kind = "Name"
    THEN [Out(jn) EXCEPT !.replies = <<[err |-> "none", name |-> name(jn)]>>]
    ELSE IF action.kind = "Timeout"
    THEN LET t == handle_timeout(jn, action.token)
         IN  IF t.transition = Terminate
             THEN t
             ELSE [t EXCEPT !.transition = Stay]
    ELSE IF action.kind = "ResourceProofResult"
    THEN Out(jn)
    ELSE [Out(jn) EXCEPT !.transition = Terminate]

\* JoiningNode::handle_crust_event
handle_crust_event(jn, crust_event, rnd) ==
    IF crust_event.kind = "LostPeer"
    THEN handle_lost_peer(jn, crust_event.peer_id)
    ELSE IF crust_event.kind = "NewMessage"
         THEN handle_new_message(jn, crust_event.peer_id, crust_event.bytes, rnd)
         ELSE Out(jn)

\* from_bootstrapping returning the JoiningNode whatever relocate() returns
from_bootstrapping_always(crust_service, full_id, mss, proxy_peer_id, proxy_public_id, timer, fault) ==
    LET joining_node ==
            [ack_mgr |-> {},
             crust_service |-> crust_service,
             full_id |-> full_id,
             min_section_size |-> mss,
             proxy_peer_id |-> proxy_peer_id,
             proxy_public_id |-> proxy_public_id,
             routing_msg_filter |-> [incoming |-> {}, outgoing |-> {}],
             relocation_timer_token |-> timer,
             timer |-> timer + 1]
        r == relocate(joining_node, fault)
    IN  [some |-> TRUE, joining_node |-> r.jn, sends |-> r.sends, err |-> r.err]

\* JoiningNode::from_bootstrapping: None when relocate() fails
from_bootstrapping(crust_service, full_id, mss, proxy_peer_id, proxy_public_id, timer, fault) ==
    LET relocation_timer_token == timer
        joining_node ==
            [ack_mgr |-> {},
             crust_service |-> crust_service,
             full_id |-> full_id,
             min_section_size |-> mss,
             proxy_peer_id |-> proxy_peer_id,
             proxy_public_id |-> proxy_public_id,
             routing_msg_filter |-> [incoming |-> {}, outgoing |-> {}],
             relocation_timer_token |-> relocation_timer_token,
             timer |-> timer + 1]
        r == relocate(joining_node, fault)
    IN  [some |-> r.err = "none", joining_node |-> r.jn, sends |-> r.sends,
         err |-> r.err]

\* into_bootstrapping staying in JoiningNode when Bootstrapping::new
\* returns no state
into_bootstrapping_stays(jn, new_full_id, our_section, bootstrapping_new) ==
    LET target_state == [kind |-> "Node", old_full_id |-> jn.full_id,
                         our_section |-> our_section]
    IN  IF bootstrapping_new
        THEN [state |-> "Bootstrapping",
              bootstrapping |-> [full_id |-> new_full_id,
                                 target_state |-> target_state],
              events |-> <<>>]
        ELSE [state |-> "JoiningNode",
              bootstrapping |-> [full_id |-> NoId,
                                 target_state |-> [kind |-> "none",
                                                   old_full_id |-> NoId,
                                                   our_section |-> {}]],
              events |-> <<>>]

\* JoiningNode::into_bootstrapping; bootstrapping_new tells whether
\* Bootstrapping::new returned a state
into_bootstrapping(jn, new_full_id, our_section, bootstrapping_new) ==
    LET target_state == [kind |-> "Node", old_full_id |-> jn.full_id,
                         our_section |-> our_section]
    IN  IF bootstrapping_new
        THEN [state |-> "Bootstrapping",
              bootstrapping |-> [full_id |-> new_full_id,
                                 target_state |-> target_state],
              events |-> <<>>]
        ELSE [state |-> "Terminated",
              bootstrapping |-> [full_id |-> NoId,
                                 target_state |-> [kind |-> "none",
                                                   old_full_id |-> NoId,
                                                   our_section |-> {}]],
              events |-> <<"RestartRequired">>]

\* ---------------------------------------------------------------- state
VARIABLES
    state,          \* the State of the state machine
    jn,             \* the fields of the JoiningNode
    bootstrapping,  \* the Bootstrapping state made by into_bootstrapping
    outbox,         \* the Events sent to the outbox so far
    delivered,      \* the (message, route) pairs the proxy delivered to the
                    \* JoiningNode with a valid hop signature and enough
                    \* signatures
    last            \* the event handled last, and what its handler did

vars == <<state, jn, bootstrapping, outbox, delivered, last>>

NoBootstrapping ==
    [full_id |-> NoId,
     target_state |-> [kind |-> "none", old_full_id |-> NoId, our_section |-> {}]]

\* the JoiningNode is consumed by the transition that ends it
NoJoiningNode ==
    [ack_mgr |-> {}, crust_service |-> "none", full_id |-> NoId,
     min_section_size |-> 0, proxy_peer_id |-> "none", proxy_public_id |-> NoId,
     routing_msg_filter |-> [incoming |-> {}, outgoing |-> {}],
     relocation_timer_token |-> 0, timer |-> 0]

\* the record of an event and of its handling: the event's inputs, which
\* of the handler's fields the handler changed (changed), whether acks
\* were pending when the event arrived (pending), for a message to send
\* whether it was pending on its route (was_pending) and whether the
\* outgoing filter had seen it for the proxy and the route (seen), the peers
\* other than the proxy that were sent bytes (to_others), whether the
\* preceding event was a message that was dispatched and ignored
\* (prev_ignored), and the handler's outputs
Handled(op, o) ==
    [op |-> op, action |-> "none", token |-> 0, peer_id |-> "none",
     tag |-> "none", signer |-> "none", from_proxy |-> FALSE,
     integrity |-> FALSE, dst_ours |-> FALSE, msg |-> NoMsg, route |-> 0,
     replayed |-> FALSE, relocation_token |-> FALSE,
     pending |-> jn.ack_mgr # {}, was_pending |-> FALSE, seen |-> FALSE,
     to_others |-> {o.sends[i].peer_id : i \in 1 .. Len(o.sends)}
                       \ {jn.proxy_peer_id},
     prev_ignored |-> /\ last.dispatched
                      /\ last.msg.content.kind \in IgnoredKinds,
     changed |-> {f \in DOMAIN jn : o.jn[f] # jn[f]},
     transition |-> o.transition, err |-> o.err, sends |-> o.sends,
     events |-> o.events, replies |-> o.replies, filtered |-> o.filtered,
     dispatched |-> o.dispatched, resent |-> o.resent]

\* ---------------------------------------------------------- event inputs
\* timer tokens an Action::Timeout may carry: every token the run can
\* schedule, and one that is never scheduled
Tokens == 0 .. (MaxRetries + 2)

Actions ==
    [kind : {"NodeSendMessage", "ClientSendRequest", "Name",
             "ResourceProofResult", "Terminate"}, token : {0}]
    \cup [kind : {"Timeout"}, token : Tokens]

\* our own client authority, as the proxy addresses us
OwnClient == Client(OwnKey, jn.proxy_public_id.name)

\* the Relocate request sent at entry
RelocateRequest ==
    RoutingMessage(OwnClient, Section(name(jn)), Content("Relocate"))

OtherName == (jn.proxy_public_id.name + 1) % (MaxName + 1)

\* relocation responses: two intervals with names in them, one without
RelocateResponses ==
    {RelocateResponse(<<0, 1>>, {"idA"}),
     RelocateResponse(<<1, MaxName>>, {"idA", "idB"}),
     RelocateResponse(<<MaxName, 0>>, {"idA"})}

\* the routing messages that may arrive: ignored, Ack and RelocateResponse
\* contents addressed to our client authority, and messages from and to
\* other authorities
RoutingMessages ==
    {RoutingMessage(Section(0), OwnClient, c) :
        c \in {Content("SectionUpdate")}
              \cup {AckContent(compute(RelocateRequest)), AckContent(BogusAck)}
              \cup RelocateResponses}
    \cup {RoutingMessage(Section(0), Section(name(jn)), Content("SectionUpdate")),
          RoutingMessage(Section(0), Client(OtherKey, jn.proxy_public_id.name),
                         RelocateResponse(<<0, 1>>, {"idA"})),
          RoutingMessage(Section(0), Client(OwnKey, OtherName),
                         Content("SectionUpdate")),
          RoutingMessage(OwnClient, OwnClient, Content("UserMessagePart")),
          RoutingMessage(Client(OtherKey, jn.proxy_public_id.name), OwnClient,
                         Content("UserMessagePart"))}

\* the messages that arrive on more than one route
MultiRouteMessages ==
    {RoutingMessage(Section(0), OwnClient, c) :
        c \in {Content("SectionUpdate"), RelocateResponse(<<0, 1>>, {"idA"})}}

Hop(routing_msg, signatures, route, signer) ==
    [content |-> [routing_msg |-> routing_msg, signatures |-> signatures],
     route |-> route, signer |-> signer]

\* hop messages signed by the proxy and fully signed by their source
WellFormedHops ==
    {Hop(m, MaxSigs, 0, ProxyKey) : m \in RoutingMessages}
    \cup {Hop(m, MaxSigs, r, ProxyKey) : m \in MultiRouteMessages, r \in Routes}

ProbeMessages ==
    {RoutingMessage(Section(0), OwnClient, Content("SectionUpdate")),
     RoutingMessage(Section(0), OwnClient, RelocateResponse(<<0, 1>>, {"idA"})),
     RoutingMessage(Section(0), Section(name(jn)), Content("SectionUpdate")),
     RoutingMessage(Client(OtherKey, jn.proxy_public_id.name), OwnClient,
                    Content("UserMessagePart"))}

\* hop messages with any number of signatures, or with a hop signature
\* that is not the proxy's
ProbeHops ==
    {Hop(m, n, 0, ProxyKey) : m \in ProbeMessages, n \in 0 .. MaxSigs}
    \cup {Hop(m, MaxSigs, 0, OtherKey) : m \in ProbeMessages}

\* every ignored content variant and the relocation responses, addressed to
\* our client authority and sent on by the proxy
VariantHops ==
    {Hop(RoutingMessage(Section(0), OwnClient, c), MaxSigs, 0, ProxyKey) :
        c \in {Content(k) : k \in IgnoredKinds} \cup RelocateResponses}

\* the Ack of the Relocate request and an Ack of nothing we sent, each in
\* two routing messages (from two sections)
AckHops ==
    {Hop(RoutingMessage(Section(n), OwnClient, AckContent(a)), MaxSigs, 0, ProxyKey) :
        n \in {0, MaxName}, a \in {compute(RelocateRequest), BogusAck}}

NoHop == Hop(NoMsg, 0, 0, "none")

\* the peers that send us bytes
Senders == PeerIds \ {OwnPeerId}

\* CrustEvent::NewMessage(peer_id, bytes)
NewMessages ==
    [peer_id : {jn.proxy_peer_id}, tag : {"Hop"}, hop : WellFormedHops \cup ProbeHops]
    \cup [peer_id : Senders \ {jn.proxy_peer_id}, tag : {"Hop"},
          hop : {h \in ProbeHops : h.content.signatures = MaxSigs}]
    \cup [peer_id : {jn.proxy_peer_id}, tag : {"Garbage", "Direct"}, hop : {NoHop}]

\* ------------------------------------------------------- state machine
\* what can fail while the Relocate request is made ready for the wire
Faults == {"none", "SignedMessage::new", "to_hop_bytes"}

\* what from_bootstrapping returns: two nodes with different names and
\* proxies, each with a Relocate request that can or cannot be signed and
\* serialised; the state is "None" when from_bootstrapping returned None.
\* The minimum section size is MaxSigs, so that a section's message can
\* carry too few signatures or enough, and the Timer has issued no token yet
Init ==
    \E own_name \in {0, MaxName}, fault \in Faults :
        LET proxy_peer_id == IF own_name = 0 THEN "peerA" ELSE "peerB"
            e == from_bootstrapping(OwnPeerId,
                                    [key |-> OwnKey, name |-> own_name],
                                    MaxSigs, proxy_peer_id,
                                    [key |-> ProxyKey, name |-> MaxName - own_name],
                                    0, fault)
        IN  /\ state = IF e.some THEN "JoiningNode" ELSE "None"
            /\ jn = IF e.some THEN e.joining_node ELSE NoJoiningNode
            /\ bootstrapping = NoBootstrapping
            /\ outbox = <<>>
            /\ delivered = {}
            /\ last = [op |-> "from_bootstrapping", action |-> "none", token |-> 0,
                       peer_id |-> "none", tag |-> "none", signer |-> "none",
                       from_proxy |-> FALSE, integrity |-> FALSE,
                       dst_ours |-> FALSE, msg |-> NoMsg, route |-> 0,
                       replayed |-> FALSE, relocation_token |-> FALSE,
                       pending |-> FALSE, was_pending |-> FALSE, seen |-> FALSE,
                       to_others |-> {e.sends[i].peer_id : i \in 1 .. Len(e.sends)}
                                         \ {proxy_peer_id},
                       prev_ignored |-> FALSE, changed |-> {},
                       transition |-> Stay, err |-> e.err, sends |-> e.sends,
                       events |-> <<>>, replies |-> <<>>, filtered |-> "none",
                       dispatched |-> FALSE, resent |-> FALSE]

\* the state machine applies the Transition the handler returned in o
ApplyTransition(o, bootstrapping_new) ==
    /\ o.returns
    /\ IF o.transition.kind = "IntoBootstrapping"
       THEN LET b == into_bootstrapping(o.jn, o.transition.new_id,
                                        o.transition.our_section,
                                        bootstrapping_new)
            IN  /\ state' = b.state
                /\ jn' = NoJoiningNode
                /\ bootstrapping' = b.bootstrapping
                /\ outbox' = outbox \o o.events \o b.events
       ELSE IF o.transition.kind = "Terminate"
            THEN /\ state' = "Terminated"
                 /\ jn' = NoJoiningNode
                 /\ bootstrapping' = bootstrapping
                 /\ outbox' = outbox \o o.events
            ELSE /\ state' = "JoiningNode"
                 /\ jn' = o.jn
                 /\ bootstrapping' = bootstrapping
                 /\ outbox' = outbox \o o.events

\* an Action taken from the action queue
ActionStep ==
    /\ state = "JoiningNode"
    /\ \E action \in Actions :
        \E o \in {handle_action(jn, action)} :
            /\ ApplyTransition(o, TRUE)
            /\ last' = [Handled("Action", o) EXCEPT
                          !.action = action.kind,
                          !.token = action.token,
                          !.relocation_token =
                              /\ action.kind = "Timeout"
                              /\ action.token = jn.relocation_timer_token]
            /\ delivered' = IF state' = "JoiningNode" THEN delivered ELSE {}

\* CrustEvent::LostPeer
LostPeerStep ==
    /\ state = "JoiningNode"
    /\ \E peer_id \in PeerIds :
        \E o \in {handle_crust_event(jn, [kind |-> "LostPeer", peer_id |-> peer_id,
                                         bytes |-> [tag |-> "none", hop |-> NoHop]], 0)} :
            /\ ApplyTransition(o, TRUE)
            /\ last' = [Handled("LostPeer", o) EXCEPT
                          !.peer_id = peer_id,
                          !.from_proxy = peer_id = jn.proxy_peer_id]
            /\ delivered' = IF state' = "JoiningNode" THEN delivered ELSE {}

\* the hop message comes from the proxy and carries the proxy's signature
Verified(ev) ==
    /\ ev.tag = "Hop"
    /\ ev.peer_id = jn.proxy_peer_id
    /\ ev.hop.signer = jn.proxy_public_id.key

\* the hop message passes the proxy, signature and integrity checks
Passes(ev) ==
    /\ Verified(ev)
    /\ ev.hop.content.signatures >=
           Quorum(ev.hop.content.routing_msg.src, jn.min_section_size)

\* the hop message is a relocation response that passes the checks of
\* handle_hop_message: only then a key pair is generated and a Bootstrapping
\* state made, for any other message one outcome of the two stands for all
Draws(ev) ==
    /\ Passes(ev)
    /\ ev.hop.content.routing_msg.content.kind = "RelocateResponse"

\* CrustEvent::NewMessage; rnd is the name of the key pair that
\* FullId::within_range generates, bootstrapping_new whether
\* Bootstrapping::new succeeds; the routing filter holds at most max_filter
\* messages
NewMessageOf(events, max_filter) ==
    /\ state = "JoiningNode"
    /\ \E ev \in events :
       \E rnd \in IF Draws(ev) THEN Names ELSE {0} :
       \E bootstrapping_new \in IF Draws(ev) THEN BOOLEAN ELSE {TRUE} :
       \E o \in {handle_crust_event(jn, [kind |-> "NewMessage",
                                         peer_id |-> ev.peer_id,
                                         bytes |-> [tag |-> ev.tag, hop |-> ev.hop]],
                                    rnd)} :
        LET signed_msg == ev.hop.content
        IN  /\ ApplyTransition(o, bootstrapping_new)
            /\ state' = "JoiningNode" =>
                 Cardinality({p[1] : p \in jn'.routing_msg_filter.incoming})
                     <= max_filter
            /\ delivered' = IF state' # "JoiningNode"
                            THEN {}
                            ELSE IF Passes(ev)
                                 THEN delivered \cup {<<signed_msg.routing_msg,
                                                        ev.hop.route>>}
                                 ELSE delivered
            /\ last' = [Handled("NewMessage", o) EXCEPT
                          !.peer_id = ev.peer_id,
                          !.tag = ev.tag,
                          !.signer = ev.hop.signer,
                          !.from_proxy = ev.peer_id = jn.proxy_peer_id,
                          !.replayed = /\ Passes(ev)
                                       /\ <<signed_msg.routing_msg, ev.hop.route>>
                                              \in delivered,
                          !.integrity = Passes(ev),
                          !.dst_ours = /\ Verified(ev)
                                       /\ signed_msg.routing_msg.dst.client_key = OwnKey,
                          !.msg = IF Passes(ev) THEN signed_msg.routing_msg ELSE NoMsg,
                          !.route = IF Passes(ev) THEN ev.hop.route ELSE 0]

NewMessageStep ==
    NewMessageOf(NewMessages, MaxFilter)

\* CrustEvent::NewMessage with a hop message of VariantHops from the proxy
VariantStep ==
    NewMessageOf([peer_id : {jn.proxy_peer_id}, tag : {"Hop"}, hop : VariantHops],
                 MaxFilter)

\* any other CrustEvent
OtherCrustStep ==
    /\ state = "JoiningNode"
    /\ \E o \in {handle_crust_event(jn, [kind |-> "ConnectFailure",
                                        peer_id |-> "none",
                                        bytes |-> [tag |-> "none", hop |-> NoHop]], 0)} :
           /\ ApplyTransition(o, TRUE)
           /\ last' = Handled("CrustOther", o)
           /\ UNCHANGED delivered

\* the events delivered to a state machine: every Action, and the crust
\* events LostPeer and NewMessage
Deliveries ==
    {[action |-> a.kind, token |-> a.token, crust |-> "none"] : a \in Actions}
    \cup [action : {"none"}, token : {0}, crust : {"LostPeer", "NewMessage"}]

\* State::Terminated handles no event: an action or crust event delivered
\* to the terminated state machine changes nothing
TerminatedStep ==
    /\ state = "Terminated"
    /\ \E d \in Deliveries :
        last' = [Handled("Terminated", Out(jn)) EXCEPT !.action = d.action,
                                                       !.token = d.token,
                                                       !.tag = d.crust,
                                                       !.pending = last.pending,
                                                       !.transition = Terminate]
    /\ UNCHANGED <<state, jn, bootstrapping, outbox, delivered>>

Next ==
    \/ ActionStep
    \/ LostPeerStep
    \/ NewMessageStep
    \/ OtherCrustStep
    \/ TerminatedStep

Spec == Init /\ [][Next]_vars

\* the JoiningNode receiving every content variant
NextVariants ==
    \/ VariantStep
    \/ ActionStep

SpecVariants == Init /\ [][NextVariants]_vars

\* the routing messages handed to send_routing_message_via_route: the
\* Relocate request again, an Ack of ours, a message for ourselves, one
\* that names another proxy and one from a section
SendMessages ==
    {RelocateRequest,
     RoutingMessage(OwnClient, Section(0), AckContent(BogusAck)),
     RoutingMessage(OwnClient, OwnClient, Content("UserMessagePart")),
     RoutingMessage(Client(OwnKey, OtherName), Section(0),
                    Content("UserMessagePart")),
     RoutingMessage(Section(name(jn)), Section(0), Content("SectionUpdate"))}

\* send_routing_message_via_route called with a message and a route; the
\* Timer issues the tokens of Tokens only
SendStep ==
    /\ state = "JoiningNode"
    /\ \E routing_msg \in SendMessages, route \in Routes, fault \in Faults :
        \E s \in {send_routing_message_via_route(
                     [jn |-> jn, sends |-> <<>>, err |-> "none", fault |-> fault],
                     routing_msg, route)} :
        LET o == [Out(s.jn) EXCEPT !.sends = s.sends, !.err = s.err]
        IN  /\ s.jn.timer - 1 \in Tokens
            /\ ApplyTransition(o, TRUE)
            /\ last' = [Handled("send_routing_message_via_route", o) EXCEPT
                          !.msg = routing_msg,
                          !.route = route,
                          !.was_pending =
                              \E e \in jn.ack_mgr : /\ e.routing_msg = routing_msg
                                                    /\ e.route = route,
                          !.seen = <<routing_msg, jn.proxy_peer_id, route>>
                                       \in jn.routing_msg_filter.outgoing]
            /\ UNCHANGED delivered

\* the JoiningNode sending routing messages while its timers fire
NextSend ==
    \/ SendStep
    \/ ActionStep

SpecSend == Init /\ [][NextSend]_vars

\* CrustEvent::NewMessage with a hop message of AckHops from the proxy
AckStep ==
    NewMessageOf([peer_id : {jn.proxy_peer_id}, tag : {"Hop"}, hop : AckHops],
                 MaxFilter + 1)

\* the JoiningNode receiving Acks, the same Ack more than once
NextAcks ==
    \/ AckStep
    \/ ActionStep

SpecAcks == Init /\ [][NextAcks]_vars

\* ------------------------------------------------------------ properties
\* the handler changed nothing, sent nothing, dispatched nothing and the
\* state machine stays in JoiningNode
Dropped ==
    /\ last.changed = {}
    /\ last.sends = <<>>
    /\ ~last.dispatched
    /\ last.filtered = "none"
    /\ last.events = <<>>
    /\ last.transition = Stay
    /\ state = "JoiningNode"

\* C1, as stated: every hop message whose hop signature is not the proxy's
\* is rejected with UnknownConnection and changes nothing.
C1_SignedByOther_UnknownConnection ==
    (last.op = "NewMessage" /\ last.tag = "Hop" /\ last.signer # ProxyKey)
        => (last.err = "UnknownConnection" /\ Dropped)

\* C1, amended: a hop message that arrives from a peer other than the proxy
\* is rejected with UnknownConnection; one that arrives from the proxy with
\* a hop signature that is not the proxy's is rejected with the signature
\* error; in both cases no ack is sent, the filter and the pending acks are
\* unchanged, nothing is dispatched and the state stays JoiningNode.
C1_UntrustedHopRejected ==
    /\ (last.op = "NewMessage" /\ last.tag = "Hop" /\ ~last.from_proxy)
           => (last.err = "UnknownConnection" /\ Dropped)
    /\ (last.op = "NewMessage" /\ last.tag = "Hop" /\ last.from_proxy
            /\ last.signer # ProxyKey)
           => (last.err = "FailedSignature" /\ Dropped)

C1_Witness ==
    /\ last.op = "NewMessage"
    /\ last.tag = "Hop"
    /\ ~last.from_proxy
    /\ last.signer # ProxyKey
    /\ last.err = "UnknownConnection"
    /\ jn.routing_msg_filter.incoming # {}
    /\ jn.ack_mgr # {}

\* C2: a routing message the proxy delivers a second time on the same route
\* is filtered as KnownMessageAndRoute; no ack is sent for it and it is not
\* dispatched.
C2_ReplayFiltered ==
    (last.op = "NewMessage" /\ last.replayed)
        => /\ last.filtered = "KnownMessageAndRoute"
           /\ last.err = "FilterCheckFailed"
           /\ last.sends = <<>>
           /\ ~last.dispatched
           /\ last.transition = Stay
           /\ state = "JoiningNode"

\* the replayed message is addressed to us and its first delivery was acked
C2_Witness ==
    /\ last.op = "NewMessage"
    /\ last.replayed
    /\ last.dst_ours
    /\ \E t \in jn.routing_msg_filter.outgoing :
          /\ t[1].content.kind = "Ack"
          /\ t[1].content.ack = compute(last.msg)

\* C3: a hop message from the proxy with the proxy's hop signature whose
\* signed message fails the integrity check is dropped: no ack, no filter
\* entry, no dispatch, the state stays JoiningNode.
C3_IntegrityFailureDropped ==
    (last.op = "NewMessage" /\ last.tag = "Hop" /\ last.from_proxy
        /\ last.signer = ProxyKey /\ ~last.integrity)
        => (last.err = "IntegrityError" /\ Dropped)

\* the failing message is addressed to our own client authority
C3_Witness ==
    /\ last.op = "NewMessage"
    /\ last.tag = "Hop"
    /\ last.from_proxy
    /\ last.signer = ProxyKey
    /\ ~last.integrity
    /\ last.dst_ours
    /\ last.err = "IntegrityError"

\* C4: a timeout emits RestartRequired and terminates exactly when its
\* token is the relocation timer token; any other token goes to the resend
\* logic, emits nothing and leaves the state JoiningNode.
C4_OnlyRelocationTokenTerminates ==
    (last.op = "Action" /\ last.action = "Timeout")
        => /\ (last.events = <<"RestartRequired">> /\ last.transition = Terminate)
                  <=> last.relocation_token
           /\ last.relocation_token => (state = "Terminated" /\ ~last.resent)
           /\ ~last.relocation_token
                  => /\ last.resent
                     /\ last.events = <<>>
                     /\ outbox = <<>>
                     /\ last.transition = Stay
                     /\ state = "JoiningNode"

\* timers other than the relocation timer fired until the Relocate request
\* was given up, and the state is still JoiningNode
C4_Witness ==
    /\ last.op = "Action"
    /\ last.action = "Timeout"
    /\ ~last.relocation_token
    /\ "ack_mgr" \in last.changed
    /\ jn.ack_mgr = {}
    /\ jn.timer > 2
    /\ state = "JoiningNode"

\* C5: losing the proxy emits Event::Terminate and ends in Terminated, and
\* in Terminated no timer changes the state or emits an event.
C5_ProxyLossTerminates ==
    [][/\ (last'.op = "LostPeer" /\ last'.from_proxy)
              => /\ last'.events = <<"Terminate">>
                 /\ outbox' = outbox \o <<"Terminate">>
                 /\ state' = "Terminated"
       /\ state = "Terminated"
              => /\ state' = "Terminated"
                 /\ outbox' = outbox
                 /\ jn' = jn
                 /\ bootstrapping' = bootstrapping]_vars

\* a timer fired after the proxy was lost
C5_Witness ==
    /\ state = "Terminated"
    /\ outbox = <<"Terminate">>
    /\ last.op = "Terminated"
    /\ last.action = "Timeout"

\* C6, as stated: the relocation timer and the loss of the proxy both emit
\* RestartRequired and terminate.
C6_BothRestartRequired ==
    ((last.op = "Action" /\ last.relocation_token)
         \/ (last.op = "LostPeer" /\ last.from_proxy))
        => /\ last.events = <<"RestartRequired">>
           /\ last.transition = Terminate
           /\ state = "Terminated"

\* C6, amended: both terminate the state machine with exactly one event;
\* the relocation timer emits RestartRequired, the loss of the proxy emits
\* Terminate.
C6_BothTerminate ==
    /\ (last.op = "Action" /\ last.relocation_token)
           => /\ last.events = <<"RestartRequired">>
              /\ last.transition = Terminate
              /\ state = "Terminated"
    /\ (last.op = "LostPeer" /\ last.from_proxy)
           => /\ last.events = <<"Terminate">>
              /\ last.transition = Terminate
              /\ state = "Terminated"

C6_Witness ==
    /\ last.op = "Action"
    /\ last.relocation_token
    /\ state = "Terminated"
    /\ outbox = <<"RestartRequired">>

\* a relocation response the JoiningNode must act on: from the proxy, with
\* the proxy's signature, enough signatures, addressed to us
ValidRelocateResponse ==
    /\ last.op = "NewMessage"
    /\ last.integrity
    /\ last.dst_ours
    /\ last.msg.content.kind = "RelocateResponse"

\* C7: a dispatched message of any content variant other than Ack and
\* RelocateResponse is ignored (Stay; identity, proxy, pending acks and
\* relocation token unchanged), and a valid RelocateResponse that follows
\* it immediately yields IntoBootstrapping.
C7_OtherVariantsIgnored ==
    /\ (last.op = "NewMessage" /\ last.dispatched
            /\ last.msg.content.kind \notin {"Ack", "RelocateResponse"})
           => /\ last.msg.content.kind \in IgnoredKinds
              /\ last.transition = Stay
              /\ last.events = <<>>
              /\ state = "JoiningNode"
              /\ last.changed \subseteq {"routing_msg_filter"}
    /\ (ValidRelocateResponse /\ last.prev_ignored)
           => /\ last.dispatched
              /\ last.transition.kind = "IntoBootstrapping"
              /\ state \in {"Bootstrapping", "Terminated"}

\* a relocation response right after an ignored message
C7_Witness ==
    /\ ValidRelocateResponse
    /\ last.prev_ignored
    /\ last.transition.kind = "IntoBootstrapping"
    /\ state = "Bootstrapping"

\* C8: a dispatched RelocateResponse with interval (lo, hi) and section S
\* yields IntoBootstrapping with a new identity whose name is in [lo, hi]
\* and with exactly the section S.
C8_RelocatedWithinInterval ==
    (last.op = "NewMessage" /\ last.dispatched
        /\ last.msg.content.kind = "RelocateResponse")
        => /\ last.transition.kind = "IntoBootstrapping"
           /\ last.msg.content.target_interval[1] <= last.transition.new_id.name
           /\ last.transition.new_id.name <= last.msg.content.target_interval[2]
           /\ last.transition.our_section = last.msg.content.section
           /\ state = "Bootstrapping"
                  => /\ bootstrapping.full_id = last.transition.new_id
                     /\ bootstrapping.target_state.our_section
                            = last.msg.content.section

C8_Witness ==
    /\ last.op = "NewMessage"
    /\ last.dispatched
    /\ last.msg.content.target_interval = <<1, MaxName>>
    /\ last.msg.content.section = {"idA", "idB"}
    /\ state = "Bootstrapping"
    /\ bootstrapping.full_id.name = MaxName

\* C9: NodeSendMessage and ClientSendRequest are answered with
\* Err(InvalidState); nothing is sent or added to the pending acks and the
\* transition is Stay.
C9_SendActionsRejected ==
    (last.op = "Action" /\ last.action \in {"NodeSendMessage", "ClientSendRequest"})
        => /\ last.replies = <<[err |-> "InvalidState", name |-> 0]>>
           /\ last.sends = <<>>
           /\ last.changed = {}
           /\ last.transition = Stay
           /\ state = "JoiningNode"

C9_Witness ==
    /\ last.op = "Action"
    /\ last.action = "ClientSendRequest"
    /\ last.replies = <<[err |-> "InvalidState", name |-> 0]>>
    /\ jn.ack_mgr # {}

\* C10: every Action variant is answered, with exactly one reply for
\* NodeSendMessage, ClientSendRequest and Name (Name with our own name) and
\* none for Timeout, ResourceProofResult and Terminate.
C10_OneReplyPerAction ==
    last.op = "Action"
        => /\ last.action \in {"NodeSendMessage", "ClientSendRequest", "Name",
                               "Timeout", "ResourceProofResult", "Terminate"}
           /\ last.transition \in {Stay, Terminate}
           /\ Len(last.replies) =
                  IF last.action \in {"NodeSendMessage", "ClientSendRequest", "Name"}
                  THEN 1 ELSE 0
           /\ last.action = "Name"
                  => last.replies = <<[err |-> "none", name |-> jn.full_id.name]>>

C10_Witness ==
    /\ last.op = "Action"
    /\ last.action = "Name"
    /\ last.replies = <<[err |-> "none", name |-> MaxName]>>
    /\ jn.proxy_public_id.name # MaxName

\* C11: Action::Terminate handled by a JoiningNode returns
\* Transition::Terminate in the step that handles it, with or without
\* pending acks, emitting and sending nothing, and the state machine is
\* Terminated; every event delivered to the terminated state machine
\* leaves the state, the outbox and the consumed JoiningNode as they are.
C11_TerminateActionEnds ==
    [][/\ (last'.op = "Action" /\ last'.action = "Terminate")
              => /\ state = "JoiningNode"
                 /\ last'.transition = Terminate
                 /\ last'.events = <<>>
                 /\ last'.sends = <<>>
                 /\ state' = "Terminated"
                 /\ jn' = NoJoiningNode
                 /\ outbox' = outbox
       /\ state = "Terminated"
              => /\ last'.op = "Terminated"
                 /\ last'.changed = {}
                 /\ last'.sends = <<>>
                 /\ last'.events = <<>>
                 /\ ~last'.dispatched
                 /\ state' = "Terminated"
                 /\ jn' = NoJoiningNode
                 /\ outbox' = outbox
                 /\ bootstrapping' = bootstrapping]_vars

\* a message arrives after Action::Terminate ended a JoiningNode whose
\* Relocate request was still unacknowledged
C11_Witness ==
    /\ state = "Terminated"
    /\ outbox = <<>>
    /\ last.op = "Terminated"
    /\ last.tag = "NewMessage"
    /\ last.pending

\* the RoutingErrors of handle_new_message and handle_hop_message
MessageErrors ==
    {"SerialisationError", "UnknownConnection", "FailedSignature",
     "IntegrityError", "FilterCheckFailed"}

\* C12: a JoiningNode handler returns Transition::Terminate only for the
\* loss of the proxy, for the timeout of the relocation timer token and for
\* Action::Terminate; a message that fails to deserialise, is not a hop
\* message, comes from an unknown peer, fails the hop verification, the
\* integrity check or the routing filter, and a LostPeer of any peer other
\* than the proxy, our own peer id included, return Transition::Stay, emit
\* no event and leave the state JoiningNode.
C12_OnlyFatalEventsTerminate ==
    /\ (last.op # "Terminated" /\ last.transition = Terminate)
           => \/ last.op = "LostPeer" /\ last.from_proxy
              \/ last.op = "Action" /\ last.action = "Timeout"
                     /\ last.relocation_token
              \/ last.op = "Action" /\ last.action = "Terminate"
    /\ (last.op = "NewMessage" /\ (last.tag # "Hop" \/ last.err # "none"))
           => /\ last.tag = "Garbage" <=> last.err = "SerialisationError"
              /\ last.tag = "Direct" => last.err = "none"
              /\ last.tag = "Hop" => last.err \in MessageErrors
              /\ last.transition = Stay
              /\ last.events = <<>>
              /\ state = "JoiningNode"
    /\ (last.op = "LostPeer" /\ ~last.from_proxy)
           => /\ last.transition = Stay
              /\ last.events = <<>>
              /\ last.changed = {}
              /\ state = "JoiningNode"

\* a relocation response for another client, delivered a second time, is
\* rejected by the routing filter and nothing was emitted so far
C12_Witness ==
    /\ last.op = "NewMessage"
    /\ last.err = "FilterCheckFailed"
    /\ last.msg.content.kind = "RelocateResponse"
    /\ last.transition = Stay
    /\ outbox = <<>>
    /\ state = "JoiningNode"

\* an Ack addressed to us that passed the hop and integrity checks
AckReceived ==
    /\ last.op = "NewMessage"
    /\ last.integrity
    /\ last.dst_ours
    /\ last.msg.content.kind = "Ack"

\* the same Ack was received before: in this routing message, or in
\* another one that is in the routing filter
SecondReceipt ==
    \/ last.filtered # "NewMessage"
    \/ \E p \in jn.routing_msg_filter.incoming :
          /\ p[1] # last.msg
          /\ p[1].content = last.msg.content
          /\ p[1].dst.client_key = OwnKey

\* C13: the first receipt of an Ack removes the pending entry it matches,
\* if there is one, and changes nothing else but the routing filter; a
\* second receipt of the same Ack removes nothing, whether it is dispatched
\* to the ack manager again (no error) or stopped by the routing filter
\* before (FilterCheckFailed, swallowed by handle_new_message); in both
\* the transition is Stay, no event is emitted and the state stays
\* JoiningNode.
C13_AckIdempotent ==
    AckReceived
        => /\ last.transition = Stay
           /\ last.events = <<>>
           /\ last.sends = <<>>
           /\ state = "JoiningNode"
           /\ last.err = IF last.dispatched THEN "none" ELSE "FilterCheckFailed"
           /\ last.dispatched <=> last.filtered = "NewMessage"
           /\ last.changed \subseteq {"routing_msg_filter", "ack_mgr"}
           /\ \A e \in jn.ack_mgr : compute(e.routing_msg) # last.msg.content.ack
           /\ ~SecondReceipt
                  => ("ack_mgr" \in last.changed
                         <=> /\ last.pending
                             /\ last.msg.content.ack = compute(RelocateRequest))
           /\ SecondReceipt => "ack_mgr" \notin last.changed

\* the Ack of the pending Relocate request is dispatched a second time, in
\* another routing message
C13_Witness ==
    /\ AckReceived
    /\ SecondReceipt
    /\ last.dispatched
    /\ last.msg.content.ack = compute(RelocateRequest)
    /\ last.err = "none"
    /\ jn.ack_mgr = {}
    /\ jn.timer = 2

\* C14: a JoiningNode that from_bootstrapping returned has the relocation
\* timer scheduled (the Timer's first token) and its Relocate request, from
\* Client(own key, proxy's name) to Section(own name), was handed to Crust
\* for the proxy on route 0 and awaits its ack; when relocate() returned an
\* error nothing was sent and from_bootstrapping returned None: there is no
\* JoiningNode.
C14_EntrySendsRelocate ==
    /\ last.op = "from_bootstrapping"
           => /\ state \in {"JoiningNode", "None"}
              /\ state = "JoiningNode" <=> last.err = "none"
              /\ last.err # "none" => (last.sends = <<>> /\ jn = NoJoiningNode)
              /\ last.err = "none"
                     => /\ last.sends =
                               <<[peer_id |-> jn.proxy_peer_id,
                                  routing_msg |->
                                      RoutingMessage(
                                          Client(jn.full_id.key,
                                                 jn.proxy_public_id.name),
                                          Section(jn.full_id.name),
                                          Content("Relocate")),
                                  route |-> 0]>>
                        /\ jn.relocation_timer_token = 0
                        /\ jn.timer = 2
                        /\ \E e \in jn.ack_mgr :
                               /\ e.routing_msg = last.sends[1].routing_msg
                               /\ e.route = 0
                               /\ e.timer_token = 1
    /\ state = "JoiningNode"
           => /\ jn.relocation_timer_token = 0
              /\ <<RelocateRequest, jn.proxy_peer_id, 0>>
                     \in jn.routing_msg_filter.outgoing

\* the hop bytes of the Relocate request could not be made: entry is
\* aborted
C14_Witness ==
    /\ last.op = "from_bootstrapping"
    /\ last.err = "SerialisationError"
    /\ last.sends = <<>>
    /\ state = "None"
    /\ jn = NoJoiningNode

\* C15: a hop message from a peer other than the proxy is rejected with
\* UnknownConnection whatever its hop signature and content are; a hop
\* message gets as far as the integrity check, the ack, the routing filter
\* or the dispatch only if it came from the proxy and its hop signature is
\* the proxy's; a hop message from the proxy that fails the verification
\* sends no ack, adds no filter entry and dispatches nothing.
C15_HopVerifiedFirst ==
    (last.op = "NewMessage" /\ last.tag = "Hop")
        => /\ ~last.from_proxy <=> last.err = "UnknownConnection"
           /\ (last.from_proxy /\ last.signer # ProxyKey)
                  <=> last.err = "FailedSignature"
           /\ (\/ last.err \in {"none", "IntegrityError", "FilterCheckFailed"}
               \/ last.sends # <<>>
               \/ last.filtered # "none"
               \/ last.dispatched
               \/ last.changed # {})
                  => (last.from_proxy /\ last.signer = ProxyKey)
           /\ last.err \in {"UnknownConnection", "FailedSignature"}
                  => /\ last.sends = <<>>
                     /\ "routing_msg_filter" \notin last.changed
                     /\ "ack_mgr" \notin last.changed
                     /\ last.filtered = "none"
                     /\ ~last.dispatched
                     /\ last.transition = Stay

\* a hop message with the proxy's own hop signature arrives from a peer
\* that is not the proxy
C15_Witness ==
    /\ last.op = "NewMessage"
    /\ last.tag = "Hop"
    /\ ~last.from_proxy
    /\ last.signer = ProxyKey
    /\ last.err = "UnknownConnection"
    /\ last.sends = <<>>

\* C16: a routing message is dispatched only if it passed the hop and
\* integrity checks and its destination is a Client authority with our own
\* signing key; a message that passed the checks with any other destination
\* (a section, another client's key) is not dispatched, no ack is sent for
\* it, nothing but the routing filter changes and the transition is Stay.
C16_OnlyOwnClientDispatched ==
    (last.op = "NewMessage" /\ last.tag = "Hop")
        => /\ last.dispatched
                  => /\ last.integrity
                     /\ last.msg.dst.kind = "Client"
                     /\ last.msg.dst.client_key = OwnKey
                     /\ last.filtered = "NewMessage"
           /\ (last.integrity
                   /\ ~(last.msg.dst.kind = "Client"
                            /\ last.msg.dst.client_key = OwnKey))
                  => /\ ~last.dispatched
                     /\ last.sends = <<>>
                     /\ last.changed \subseteq {"routing_msg_filter"}
                     /\ last.transition = Stay
                     /\ last.events = <<>>
                     /\ state = "JoiningNode"

\* a relocation response for another client passes the routing filter as
\* a new message and is neither acknowledged nor dispatched
C16_Witness ==
    /\ last.op = "NewMessage"
    /\ last.integrity
    /\ last.msg.dst.kind = "Client"
    /\ last.msg.dst.client_key = OtherKey
    /\ last.msg.content.kind = "RelocateResponse"
    /\ last.filtered = "NewMessage"
    /\ ~last.dispatched
    /\ last.sends = <<>>
    /\ state = "JoiningNode"

\* last.msg needs an ack: add_to_pending_acks registers it
NeedsAck ==
    last.msg.content.kind # "Ack"

\* C17: send_routing_message_via_route hands a message to Crust, for the
\* proxy and on the given route, only if the message was not already
\* pending on that route and the outgoing filter had not seen it for the
\* proxy and the route; the identical message sent again on the same route
\* while it is pending is not transmitted and changes nothing; a message
\* whose source is not a client (InvalidSource) or names another proxy
\* (ProxyConnectionNotFound) is neither transmitted nor registered with the
\* ack manager.
C17_SendOncePerRoute ==
    last.op = "send_routing_message_via_route"
        => /\ last.transition = Stay
           /\ last.sends # <<>>
                  => /\ last.sends = <<[peer_id |-> jn.proxy_peer_id,
                                        routing_msg |-> last.msg,
                                        route |-> last.route]>>
                     /\ ~(NeedsAck /\ last.was_pending)
                     /\ ~last.seen
                     /\ last.err = "none"
                     /\ last.msg.src = OwnClient
                     /\ ~in_authority(jn, last.msg.dst)
           /\ (NeedsAck /\ last.was_pending)
                  => /\ last.sends = <<>>
                     /\ last.changed = {}
                     /\ last.err \in {"none", "SigningError"}
           /\ last.seen => last.sends = <<>>
           /\ last.err \in {"InvalidSource", "ProxyConnectionNotFound"}
                  => /\ last.sends = <<>>
                     /\ last.changed = {}
           /\ last.err = "InvalidSource"
                  <=> (last.msg.src.kind # "Client"
                          /\ ~in_authority(jn, last.msg.dst))
           /\ last.err = "ProxyConnectionNotFound"
                  <=> /\ last.msg.src.kind = "Client"
                      /\ last.msg.src.name # jn.proxy_public_id.name
                      /\ ~in_authority(jn, last.msg.dst)

\* the Relocate request sent at entry is sent again on route 0 while it is
\* pending: nothing is transmitted
C17_Witness ==
    /\ last.op = "send_routing_message_via_route"
    /\ last.msg = RelocateRequest
    /\ last.route = 0
    /\ last.was_pending
    /\ last.seen
    /\ last.sends = <<>>
    /\ last.err = "none"
    /\ \E e \in jn.ack_mgr : e.routing_msg = RelocateRequest /\ e.route = 0

C19_RelocateResent ==
    (last.op = "Action" /\ last.action = "Timeout" /\ last.relocation_token)
        => /\ \E i \in 1 .. Len(last.sends) :
                  last.sends[i].routing_msg.content.kind = "Relocate"
           /\ state = "JoiningNode"

\* C20: Transition::IntoBootstrapping is returned only for a NewMessage
\* event whose hop message came from the proxy, carries the proxy's hop
\* signature, passed the integrity check, was a NewMessage for the routing
\* filter, is addressed to a Client authority with our own key and has the
\* content RelocateResponse.
C20_IntoBootstrappingGuarded ==
    last.transition.kind = "IntoBootstrapping"
        => /\ last.op = "NewMessage"
           /\ last.tag = "Hop"
           /\ last.from_proxy
           /\ last.signer = ProxyKey
           /\ last.integrity
           /\ last.filtered = "NewMessage"
           /\ last.err = "none"
           /\ last.msg.dst.kind = "Client"
           /\ last.msg.dst.client_key = OwnKey
           /\ last.msg.content.kind = "RelocateResponse"

\* a relocation response that arrived on the last route
C20_Witness ==
    /\ last.transition.kind = "IntoBootstrapping"
    /\ last.op = "NewMessage"
    /\ last.from_proxy
    /\ last.signer = ProxyKey
    /\ last.integrity
    /\ last.filtered = "NewMessage"
    /\ last.msg.content.kind = "RelocateResponse"
    /\ last.route = MaxRoute
    /\ state = "Bootstrapping"

\* C21: everything a JoiningNode hands to Crust, the Relocate request at
\* entry, the acks of the messages addressed to it and the resends of
\* timed-out messages, goes to the proxy peer and to no other peer, and no
\* routing message whose destination is a Client authority with our own key
\* is handed to Crust.
C21_SendsOnlyToProxy ==
    /\ last.to_others = {}
    /\ \A i \in 1 .. Len(last.sends) :
           /\ last.sends[i].peer_id \in PeerIds \ {OwnPeerId}
           /\ state = "JoiningNode" => last.sends[i].peer_id = jn.proxy_peer_id
           /\ ~(/\ last.sends[i].routing_msg.dst.kind = "Client"
                 /\ last.sends[i].routing_msg.dst.client_key = OwnKey)
           /\ last.sends[i].routing_msg.src.kind = "Client"
           /\ last.sends[i].routing_msg.src.client_key = OwnKey
    /\ (last.op = "NewMessage" /\ last.integrity /\ last.dst_ours
            /\ last.msg.src.kind = "Client" /\ last.msg.src.client_key = OwnKey)
           => last.sends = <<>>

\* a message from our own client authority to itself is dispatched, and its
\* ack, which is for ourselves, is not handed to Crust
C21_Witness ==
    /\ last.op = "NewMessage"
    /\ last.integrity
    /\ last.msg.src = last.msg.dst
    /\ last.msg.dst.kind = "Client"
    /\ last.msg.dst.client_key = OwnKey
    /\ last.dispatched
    /\ last.sends = <<>>
    /\ last.to_others = {}
    /\ state = "JoiningNode"

====
